---- MODULE Spec2Model ----
(***************************************************************************)
(* Browser-side glue of the regulatory-documents landing page.             *)
(*                                                                         *)
(* The repository holds four versions of static/js/main.js: the file       *)
(* itself (footer year only) and three listings in README.md:              *)
(*   "landing"  README.md 13-141   alert auto-hide, tooltips, form, top    *)
(*   "elastic"  README.md 145-371  footer year + search via /buscar-elastic*)
(*   "buscar"   README.md 375-459  footer year + search via /buscar        *)
(* A page loads exactly one of them; `script` says which.  Of "landing"   *)
(* the model covers initAutoHideAlerts; its tooltips, inline form feedback *)
(* and back-to-top button touch no state the other parts read.            *)
(*                                                                         *)
(* JavaScript strings are sequences of one-character strings where the     *)
(* code looks inside them (input value, attribute values) and sequences of *)
(* chunks where it only concatenates (alert messages, number texts).       *)
(* JSON values are tagged records: [t |-> "absent"], [t |-> "num", v],     *)
(* [t |-> "arr", v], [t |-> "obj", ...], [t |-> "null"].                   *)
(***************************************************************************)
EXTENDS Integers, Sequences, FiniteSets

VARIABLES
  script,          \* which version of main.js the page runs
  loaded,          \* DOMContentLoaded has been dispatched
  hasYearSpan,     \* the page has an element with id current-year
  yearText,        \* textContent of #current-year
  year,            \* the calendar year (what new Date().getFullYear() returns)
  loadYear,        \* history: the calendar year when DOMContentLoaded ran
  hasSearchDom,    \* the page has the search form and its companion elements
  handlerAttached, \* the submit listener has been added to the form
  alerta,          \* #alerta-busqueda: [tipo, msg]
  sectionVisible,  \* #resultados-section does not carry the class d-none
  container,       \* children of #resultados-container
  totalText,       \* textContent of #total-resultados
  ultimaBusqueda,  \* the page-local variable of the "elastic" script
  reqs,            \* one entry per non-empty submission: [texto, pc], pc the
                   \* handler's position: "fetch", "json", "completed", "failed"
  requestLog,      \* history: the arguments of every fetch call, in order
  lastEvent,       \* history: the event handled by the latest step and its input
  bootstrapLoaded, \* window.bootstrap (with bootstrap.Alert) is defined
  alerts,          \* the .alert elements of the document at load: their attributes
  timers,          \* pending setTimeout callbacks: [alert, due]
  now,             \* milliseconds since the page was loaded
  closeCount,      \* per alert: how many times bsAlert.close() was called
  closedAt         \* per alert: the time of the latest close() call

vars == << script, loaded, hasYearSpan, yearText, year, loadYear, hasSearchDom,
           handlerAttached, alerta, sectionVisible, container, totalText,
           ultimaBusqueda, reqs, requestLog, lastEvent, bootstrapLoaded,
           alerts, timers, now, closeCount, closedAt >>

searchVars == << alerta, sectionVisible, container, totalText, ultimaBusqueda,
                 reqs, requestLog >>
alertVars == << timers, now, closeCount, closedAt >>
pageVars == << script, hasYearSpan, hasSearchDom, bootstrapLoaded, alerts >>

----------------------------------------------------------------------------
(* Bounds of the model.                                                    *)

MaxRequests == 2   \* non-empty submissions per page
MaxHits == 2       \* documents in one response array
MaxAlerts == 2     \* .alert elements in the document
MaxYearTicks == 1  \* new years seen while the page is open

(* Program constants.                                                      *)

RequestSize == 20          \* size: 20 in the /buscar-elastic body
DefaultDelay == 5000       \* delay when data-autoclose-delay is absent or empty

----------------------------------------------------------------------------
(* Strings and numbers.                                                    *)

Whitespace == {" ", "\t", "\n"}

RECURSIVE TrimStart(_)
TrimStart(s) ==
  IF s = <<>> THEN s
  ELSE IF Head(s) \in Whitespace THEN TrimStart(Tail(s)) ELSE s

RECURSIVE TrimEnd(_)
TrimEnd(s) ==
  IF s = <<>> THEN s
  ELSE IF s[Len(s)] \in Whitespace THEN TrimEnd(SubSeq(s, 1, Len(s) - 1)) ELSE s

\* String.prototype.trim
Trim(s) == TrimEnd(TrimStart(s))

DigitChar == <<"0", "1", "2", "3", "4", "5", "6", "7", "8", "9">>

\* String(n) for a non-negative integer: its decimal digits
RECURSIVE ToStr(_)
ToStr(n) ==
  IF n < 10 THEN << DigitChar[n + 1] >>
  ELSE ToStr(n \div 10) \o << DigitChar[(n % 10) + 1] >>

\* What the user can have in the text field when the form is submitted
InputValues ==
  { <<>>, <<" ", "\t">>, <<"a">>, <<" ", "a", "\n">>, <<"b">> }

Queries == { Trim(v) : v \in InputValues } \ { <<>> }

\* The calendar years the page can live through
Years == 2025..(2025 + MaxYearTicks)

----------------------------------------------------------------------------
(* JSON values of a response body.                                         *)

Absent == [t |-> "absent"]
Null == [t |-> "null"]
Num(n) == [t |-> "num", v |-> n]
Bool(b) == [t |-> "bool", v |-> b]
Str(s) == [t |-> "str", v |-> s]
Arr(s) == [t |-> "arr", v |-> s]

\* A hit of the answer to query q; the document's fields are left abstract
Doc(q) == [t |-> "doc", q |-> q]

\* Arrays of hits the backend may answer query q with: n documents, or a
\* JSON null among the documents
HitArrays(q) ==
  { Arr([i \in 1..n |-> Doc(q)]) : n \in 0..MaxHits }
    \cup { Arr(<<Null>>), Arr(<<Doc(q), Null>>) }

Totals == { Absent, Num(7) }

\* data.hits: absent, an array, or an object {hits?, total?}
HitsFields(q) ==
  { Absent } \cup HitArrays(q)
    \cup { [t |-> "obj", hits |-> h, total |-> tt] :
             h \in { Absent, Arr(<<>>), Arr(<<Doc(q)>>) },
             tt \in Totals \cup { [t |-> "obj", value |-> Num(7)] } }

ResultadosFields(q) == { Absent, Arr(<<>>), Arr(<<Doc(q)>>), Arr(<<Null>>) }

\* Bodies that report a failure: success is false, error is absent, empty or a
\* message; such a body may still carry hits
FailureBodies(q) ==
  { [t |-> "obj", success |-> Bool(FALSE), error |-> e, hits |-> h,
     resultados |-> Absent, total |-> Absent] :
      e \in { Absent, Str(""), Str("indice no disponible") },
      h \in { Absent, Arr(<<Doc(q)>>) } }

\* Bodies that report no failure: success is absent or true.  Of the product
\* of the fields the model keeps the bodies with one array source, the ones
\* where data.hits and data.resultados compete, and a few with success: true
AnswerBodies(q) ==
  { b \in [t : { "obj" }, success : { Absent, Bool(TRUE) }, error : { Absent },
           hits : HitsFields(q), resultados : ResultadosFields(q), total : Totals] :
      /\ b.resultados # Absent =>
           b.hits \in { Absent, Arr(<<>>), Arr(<<Doc(q)>>),
                        [t |-> "obj", hits |-> Absent, total |-> Absent] }
      /\ b.success # Absent =>
           b.total = Absent /\ b.resultados = Absent /\ b.hits.t # "obj" }

\* The JSON bodies resp.json() may resolve to for a request about query q
Bodies(q) == { Null } \cup FailureBodies(q) \cup AnswerBodies(q)

Statuses == { 200, 404, 500 }

\* Response.ok
Ok(status) == status >= 200 /\ status <= 299

----------------------------------------------------------------------------
(* History of events: what the latest step handled, and with which input.   *)

NoInfo == [t |-> "none"]
Event(op, req, info) == [op |-> op, req |-> req, info |-> info]

\* Which of the accepted shapes a JSON object body has, read off its fields
FormaRespuesta(d) ==
  IF d.hits.t = "arr" THEN "hits"
  ELSE IF d.hits.t = "obj" /\ d.hits.hits.t = "arr" THEN "hits.hits"
  ELSE IF d.resultados.t = "arr" THEN "resultados"
  ELSE "none"

\* The number of hits a JSON object body carries in the shape it has
NumHits(d) ==
  CASE FormaRespuesta(d) = "hits" -> Len(d.hits.v)
    [] FormaRespuesta(d) = "hits.hits" -> Len(d.hits.hits.v)
    [] FormaRespuesta(d) = "resultados" -> Len(d.resultados.v)
    [] OTHER -> 0

\* What the history keeps of a parsed body
BodyInfo(d) ==
  IF d = Null THEN [t |-> "null"]
  ELSE IF d.success = Bool(FALSE) THEN [t |-> "failure", error |-> d.error]
  ELSE [t |-> "hits", forma |-> FormaRespuesta(d), n |-> NumHits(d)]

----------------------------------------------------------------------------
(* The "elastic" script: helpers of the DOMContentLoaded closure.          *)

MsgVacio == << "Por favor ingresa un texto para buscar." >>
MsgBuscando == << "Buscando documentos... por favor espera." >>
MsgHttp(status) ==
  << "Error al comunicarse con el servidor (HTTP " >> \o ToStr(status) \o << ")." >>
MsgErrorBusqueda == << "Error en la búsqueda." >>
MsgComunicacion == << "Error de comunicación con el servidor." >>

\* alerta.textContent = mensaje; alerta.className = "alert alert-" + tipo + ...
mostrarAlerta(mensaje, tipo) == [tipo |-> tipo, msg |-> mensaje]

\* alerta.textContent = ""; alerta.className = "alert d-none mx-auto"
ocultarAlerta == [tipo |-> "hidden", msg |-> <<>>]

\* The three writes of limpiarResultados
limpiarResultados ==
  /\ container' = <<>>
  /\ sectionVisible' = FALSE
  /\ totalText' = ToStr(0)

extraerHits(data) ==
  IF data.hits.t = "arr" THEN data.hits.v
  ELSE IF data.hits.t = "obj" /\ data.hits.hits.t = "arr" THEN data.hits.hits.v
  ELSE IF data.resultados.t = "arr" THEN data.resultados.v
  ELSE <<>>

extraerTotal(data, hits) ==
  IF data.total.t = "num" THEN data.total.v
  ELSE IF data.hits.t = "obj" /\ data.hits.total.t = "num" THEN data.hits.total.v
  ELSE IF /\ data.hits.t = "obj"
          /\ data.hits.total.t = "obj"
          /\ data.hits.total.value.t = "num" THEN data.hits.total.value.v
  ELSE Len(hits)

\* The list-group item of "no results"
SinResultados == [t |-> "mensaje", text |-> "No se encontraron resultados."]

\* The list-group item rendered for hits[index]
Item(hit, index) == [t |-> "item", q |-> hit.q, index |-> index]

\* The first position of hits whose element makes the forEach callback throw
\* (reading a property of null), or Len(hits) + 1
RECURSIVE PrimerNulo(_, _)
PrimerNulo(hits, i) ==
  IF i > Len(hits) THEN i
  ELSE IF hits[i] = Null THEN i ELSE PrimerNulo(hits, i + 1)

\* Variant: renderResultados without its branch for an empty list of hits
renderSinMensaje(data) ==
  LET hits == extraerHits(data)
      total == extraerTotal(data, hits)
      k == PrimerNulo(hits, 1)
  IN  [ultima |-> hits, total |-> ToStr(total),
       container |-> [i \in 1..(k - 1) |-> Item(hits[i], i)],
       show |-> k > Len(hits), threw |-> k <= Len(hits)]

\* renderResultados(data): the values it leaves in the page, and whether the
\* forEach threw before the section was shown
renderResultados(data) ==
  LET hits == extraerHits(data)
      total == extraerTotal(data, hits)
      k == PrimerNulo(hits, 1)
  IN  IF hits = <<>>
      THEN [ultima |-> hits, total |-> ToStr(total),
            container |-> << SinResultados >>, show |-> TRUE, threw |-> FALSE]
      ELSE [ultima |-> hits, total |-> ToStr(total),
            container |-> [i \in 1..(k - 1) |-> Item(hits[i], i)],
            show |-> k > Len(hits), threw |-> k <= Len(hits)]

\* Variant: the request asks for another page size
FetchElasticOtroSize(texto) ==
  [url |-> "/buscar-elastic", method |-> "POST",
   body |-> [texto |-> texto, size |-> RequestSize \div 2]]

\* The arguments of fetch in the "elastic" submit handler
FetchElastic(texto) ==
  [url |-> "/buscar-elastic", method |-> "POST",
   body |-> [texto |-> texto, size |-> RequestSize]]

\* Variant: the handler fetches without validating the text
EnviaConsultaSinValidar(texto) == TRUE

\* Whether the handler goes on to fetch after validating the trimmed text
EnviaConsulta(texto) == texto # <<>>

\* form "submit" listener: from the event to the first await
SubmitElastic(v) ==
  LET texto == Trim(v) IN
  /\ script = "elastic" /\ handlerAttached
  /\ lastEvent' = Event("submit", 0, [t |-> "value", v |-> v])
  /\ IF ~EnviaConsulta(texto)
     THEN /\ alerta' = mostrarAlerta(MsgVacio, "warning")
          /\ UNCHANGED << sectionVisible, container, totalText, ultimaBusqueda,
                          reqs, requestLog >>
     ELSE /\ Len(reqs) < MaxRequests
          /\ limpiarResultados
          /\ alerta' = mostrarAlerta(MsgBuscando, "info")
          /\ reqs' = Append(reqs, [texto |-> texto, pc |-> "fetch"])
          /\ requestLog' = Append(requestLog, FetchElastic(texto))
          /\ UNCHANGED ultimaBusqueda
  /\ UNCHANGED << pageVars, loaded, yearText, year, loadYear, handlerAttached,
                  alertVars >>

\* Variant: the alert for a response that is not ok leaves the status out
AlertaHttpSinCodigo(status) == mostrarAlerta(MsgComunicacion, "danger")

\* The alert shown for a response whose ok is false
AlertaHttp(status) == mostrarAlerta(MsgHttp(status), "danger")

\* Variant: the catch block only logs to the console
AlertaCatchSoloLog == alerta

\* The alert of the catch block
AlertaCatch == mostrarAlerta(MsgComunicacion, "danger")

\* The promise of fetch rejects: the catch block runs
FetchRejectedElastic(i) ==
  /\ script = "elastic" /\ i \in 1..Len(reqs) /\ reqs[i].pc = "fetch"
  /\ alerta' = AlertaCatch
  /\ reqs' = [reqs EXCEPT ![i].pc = "failed"]
  /\ lastEvent' = Event("fetchRejected", i, NoInfo)
  /\ UNCHANGED << sectionVisible, container, totalText, ultimaBusqueda, requestLog,
                  pageVars, loaded, yearText, year, loadYear, handlerAttached,
                  alertVars >>

\* The promise of fetch resolves with a response of the given status
ResponseElastic(i, status) ==
  /\ script = "elastic" /\ i \in 1..Len(reqs) /\ reqs[i].pc = "fetch"
  /\ lastEvent' = Event("response", i, [t |-> "status", v |-> status])
  /\ IF ~Ok(status)
     THEN /\ alerta' = AlertaHttp(status)
          /\ reqs' = [reqs EXCEPT ![i].pc = "failed"]
     ELSE /\ reqs' = [reqs EXCEPT ![i].pc = "json"]
          /\ UNCHANGED alerta
  /\ UNCHANGED << sectionVisible, container, totalText, ultimaBusqueda, requestLog,
                  pageVars, loaded, yearText, year, loadYear, handlerAttached,
                  alertVars >>

\* resp.json() rejects (the body is not JSON): the catch block runs
JsonRejectedElastic(i) ==
  /\ script = "elastic" /\ i \in 1..Len(reqs) /\ reqs[i].pc = "json"
  /\ alerta' = AlertaCatch
  /\ reqs' = [reqs EXCEPT ![i].pc = "failed"]
  /\ lastEvent' = Event("jsonRejected", i, NoInfo)
  /\ UNCHANGED << sectionVisible, container, totalText, ultimaBusqueda, requestLog,
                  pageVars, loaded, yearText, year, loadYear, handlerAttached,
                  alertVars >>

\* Variant: the alert for success false ignores data.error
AlertaFalloFijo(data) == mostrarAlerta(MsgErrorBusqueda, "danger")

\* The alert shown for a body whose success is false
AlertaFallo(data) ==
  mostrarAlerta(IF data.error.t = "str" /\ data.error.v # ""
                THEN << data.error.v >> ELSE MsgErrorBusqueda, "danger")

\* resp.json() resolves with data: the rest of the try block
BodyElastic(i, data) ==
  /\ script = "elastic" /\ i \in 1..Len(reqs) /\ reqs[i].pc = "json"
  /\ lastEvent' = Event("body", i, BodyInfo(data))
  /\ IF data = Null
     THEN \* data.success throws a TypeError
          /\ alerta' = AlertaCatch
          /\ reqs' = [reqs EXCEPT ![i].pc = "failed"]
          /\ UNCHANGED << sectionVisible, container, totalText, ultimaBusqueda >>
     ELSE IF data.success = Bool(FALSE)
     THEN /\ alerta' = AlertaFallo(data)
          /\ reqs' = [reqs EXCEPT ![i].pc = "failed"]
          /\ UNCHANGED << sectionVisible, container, totalText, ultimaBusqueda >>
     ELSE LET r == renderResultados(data) IN
          /\ alerta' = IF r.threw THEN AlertaCatch ELSE ocultarAlerta
          /\ reqs' = [reqs EXCEPT ![i].pc = IF r.threw THEN "failed" ELSE "completed"]
          /\ ultimaBusqueda' = r.ultima
          /\ container' = r.container
          /\ totalText' = r.total
          /\ sectionVisible' = (sectionVisible \/ r.show)
  /\ UNCHANGED << requestLog, pageVars, loaded, yearText, year, loadYear,
                  handlerAttached, alertVars >>

----------------------------------------------------------------------------
(* The "buscar" script.                                                    *)

MsgDebes == << "Debes escribir un texto de búsqueda." >>
MsgBuscandoCorto == << "Buscando..." >>  \* the source writes an ellipsis character
MsgSinDocumentos == << "No se encontraron documentos para esa búsqueda." >>
MsgEncontrados(n) == << "Se encontraron " >> \o ToStr(n) \o << " documentos." >>

\* mostrarAlerta(elemento, mensaje, tipo), for the element the page has
mostrarAlertaEn(mensaje, tipo) == [tipo |-> tipo, msg |-> mensaje]

\* The arguments of fetch in the "buscar" submit handler
FetchBuscar(query) ==
  [url |-> "/buscar", method |-> "POST", body |-> [q |-> query]]

\* The anchor rendered for a document of data.resultados
Enlace(doc, index) == [t |-> "item", q |-> doc.q, index |-> index]

\* What the history keeps of a parsed body in this script
BodyInfoBuscar(d) ==
  IF d = Null THEN [t |-> "null"]
  ELSE [t |-> "hits",
        forma |-> IF d.resultados.t = "arr" THEN "resultados" ELSE "none",
        n |-> IF d.resultados.t = "arr" THEN Len(d.resultados.v) ELSE 0]

\* formBusqueda "submit" listener: from the event to the first await
SubmitBuscar(v) ==
  LET query == Trim(v) IN
  /\ script = "buscar" /\ handlerAttached
  /\ lastEvent' = Event("submit", 0, [t |-> "value", v |-> v])
  /\ IF query = <<>>
     THEN /\ alerta' = mostrarAlertaEn(MsgDebes, "warning")
          /\ UNCHANGED << sectionVisible, container, reqs, requestLog >>
     ELSE /\ Len(reqs) < MaxRequests
          /\ alerta' = mostrarAlertaEn(MsgBuscandoCorto, "info")
          /\ sectionVisible' = FALSE
          /\ container' = <<>>
          /\ reqs' = Append(reqs, [texto |-> query, pc |-> "fetch"])
          /\ requestLog' = Append(requestLog, FetchBuscar(query))
  /\ UNCHANGED << totalText, ultimaBusqueda, pageVars, loaded, yearText, year,
                  loadYear, handlerAttached, alertVars >>

\* The alert of this script's catch block
AlertaCatchBuscar == mostrarAlertaEn(MsgComunicacion, "danger")

\* The promise of fetch rejects: the catch block runs
FetchRejectedBuscar(i) ==
  /\ script = "buscar" /\ i \in 1..Len(reqs) /\ reqs[i].pc = "fetch"
  /\ alerta' = AlertaCatchBuscar
  /\ reqs' = [reqs EXCEPT ![i].pc = "failed"]
  /\ lastEvent' = Event("fetchRejected", i, NoInfo)
  /\ UNCHANGED << sectionVisible, container, totalText, ultimaBusqueda, requestLog,
                  pageVars, loaded, yearText, year, loadYear, handlerAttached,
                  alertVars >>

\* The promise of fetch resolves; a response that is not ok throws into the catch
ResponseBuscar(i, status) ==
  /\ script = "buscar" /\ i \in 1..Len(reqs) /\ reqs[i].pc = "fetch"
  /\ lastEvent' = Event("response", i, [t |-> "status", v |-> status])
  /\ IF ~Ok(status)
     THEN /\ alerta' = AlertaCatchBuscar
          /\ reqs' = [reqs EXCEPT ![i].pc = "failed"]
     ELSE /\ reqs' = [reqs EXCEPT ![i].pc = "json"]
          /\ UNCHANGED alerta
  /\ UNCHANGED << sectionVisible, container, totalText, ultimaBusqueda, requestLog,
                  pageVars, loaded, yearText, year, loadYear, handlerAttached,
                  alertVars >>

\* resp.json() rejects: the catch block runs
JsonRejectedBuscar(i) ==
  /\ script = "buscar" /\ i \in 1..Len(reqs) /\ reqs[i].pc = "json"
  /\ alerta' = AlertaCatchBuscar
  /\ reqs' = [reqs EXCEPT ![i].pc = "failed"]
  /\ lastEvent' = Event("jsonRejected", i, NoInfo)
  /\ UNCHANGED << sectionVisible, container, totalText, ultimaBusqueda, requestLog,
                  pageVars, loaded, yearText, year, loadYear, handlerAttached,
                  alertVars >>

\* The alert shown when data.resultados is no array or is empty
AlertaSinDocumentos == mostrarAlertaEn(MsgSinDocumentos, "warning")

\* resp.json() resolves with data: the rest of the try block
BodyBuscar(i, data) ==
  /\ script = "buscar" /\ i \in 1..Len(reqs) /\ reqs[i].pc = "json"
  /\ lastEvent' = Event("body", i, BodyInfoBuscar(data))
  /\ IF data = Null
     THEN \* data.resultados throws a TypeError
          /\ alerta' = AlertaCatchBuscar
          /\ reqs' = [reqs EXCEPT ![i].pc = "failed"]
          /\ UNCHANGED << sectionVisible, container >>
     ELSE IF data.resultados.t # "arr" \/ Len(data.resultados.v) = 0
     THEN /\ alerta' = AlertaSinDocumentos
          /\ reqs' = [reqs EXCEPT ![i].pc = "completed"]
          /\ UNCHANGED << sectionVisible, container >>
     ELSE LET docs == data.resultados.v
              k == PrimerNulo(docs, 1)
          IN  /\ container' = [j \in 1..(k - 1) |-> Enlace(docs[j], j)]
              /\ IF k <= Len(docs)
                 THEN \* doc.url throws a TypeError inside the forEach
                      /\ alerta' = AlertaCatchBuscar
                      /\ reqs' = [reqs EXCEPT ![i].pc = "failed"]
                      /\ UNCHANGED sectionVisible
                 ELSE /\ sectionVisible' = TRUE
                      /\ alerta' = mostrarAlertaEn(MsgEncontrados(Len(docs)), "success")
                      /\ reqs' = [reqs EXCEPT ![i].pc = "completed"]
  /\ UNCHANGED << totalText, ultimaBusqueda, requestLog, pageVars, loaded, yearText,
                  year, loadYear, handlerAttached, alertVars >>

----------------------------------------------------------------------------
(* The "landing" script: initAutoHideAlerts.                               *)

Chars(s) == [t |-> "str", v |-> s]
AttrFalse == Chars(<< "f", "a", "l", "s", "e" >>)
AttrTrue == Chars(<< "t", "r", "u", "e" >>)

AutocloseAttrs == { Absent, AttrFalse, AttrTrue }
DelayAttrs ==
  { Absent, Chars(<<>>), Chars(<< "8", "0", "0", "0" >>), Chars(<< "a", "b", "c" >>) }

NaN == [t |-> "nan"]

DigitValue(c) == CHOOSE d \in 0..9 : DigitChar[d + 1] = c
IsDigit(c) == \E d \in 0..9 : DigitChar[d + 1] = c

\* The value of the longest prefix of decimal digits of s, continuing from acc
RECURSIVE Digitos(_, _)
Digitos(s, acc) ==
  IF s = <<>> \/ ~IsDigit(Head(s)) THEN acc
  ELSE Digitos(Tail(s), 10 * acc + DigitValue(Head(s)))

\* parseInt(s, 10)
ParseInt(s) ==
  LET u == TrimStart(s)
      neg == u # <<>> /\ Head(u) = "-"
      w == IF u # <<>> /\ Head(u) \in { "-", "+" } THEN Tail(u) ELSE u
  IN  IF w = <<>> \/ ~IsDigit(Head(w)) THEN NaN
      ELSE Num(IF neg THEN 0 - Digitos(w, 0) ELSE Digitos(w, 0))

\* Variant: data-autoclose is not consulted
ShouldAutoCloseSiempre(alert) == TRUE

\* autoCloseAttr !== 'false'
ShouldAutoClose(alert) == alert.autoclose # AttrFalse

\* delayAttr ? parseInt(delayAttr, 10) : 5000
Delay(alert) ==
  IF alert.delay.t = "str" /\ alert.delay.v # <<>>
  THEN ParseInt(alert.delay.v) ELSE Num(DefaultDelay)

\* The time setTimeout waits for a delay argument: NaN and negatives count as 0
TimerDelay(d) == IF d.t = "num" /\ d.v > 0 THEN d.v ELSE 0

\* The timers initAutoHideAlerts starts
initAutoHideAlerts ==
  IF Len(alerts) = 0 \/ ~bootstrapLoaded THEN {}
  ELSE { [alert |-> i, due |-> now + TimerDelay(Delay(alerts[i]))] :
           i \in { j \in 1..Len(alerts) : ShouldAutoClose(alerts[j]) } }

\* DOMContentLoaded in the "landing" script
LoadLanding ==
  /\ script = "landing" /\ ~loaded
  /\ loaded' = TRUE
  /\ timers' = initAutoHideAlerts
  /\ lastEvent' = Event("load", 0, NoInfo)
  /\ UNCHANGED << pageVars, yearText, year, loadYear, handlerAttached, searchVars,
                  now, closeCount, closedAt >>

\* The moments of the page's life the model looks at, in ms after load
TimePoints == { DefaultDelay - 1, DefaultDelay, 8000, 9000 }

\* Time passes while a timer is pending
Tick(t) ==
  /\ timers # {} /\ t \in TimePoints /\ t > now
  /\ now' = t
  /\ lastEvent' = Event("tick", 0, NoInfo)
  /\ UNCHANGED << pageVars, loaded, yearText, year, loadYear, handlerAttached,
                  searchVars, timers, closeCount, closedAt >>

\* A setTimeout callback runs, at or after its due time:
\* bootstrap.Alert.getOrCreateInstance(alert).close()
TimerFires(tm) ==
  /\ tm \in timers /\ now >= tm.due
  /\ timers' = timers \ { tm }
  /\ closeCount' = [closeCount EXCEPT ![tm.alert] = @ + 1]
  /\ closedAt' = [closedAt EXCEPT ![tm.alert] = now]
  /\ lastEvent' = Event("timer", tm.alert, NoInfo)
  /\ UNCHANGED << pageVars, loaded, yearText, year, loadYear, handlerAttached,
                  searchVars, now >>

----------------------------------------------------------------------------
(* Footer year and page load of the other three scripts.                   *)

\* Variant: Date.prototype.getYear (years since 1900) instead of getFullYear
FooterYearGetYear == ToStr(year - 1900)

\* yearSpan.textContent = new Date().getFullYear()
FooterYear == ToStr(year)

\* if (yearSpan) { ... }
WriteYear ==
  /\ yearText' = IF hasYearSpan THEN FooterYear ELSE yearText
  /\ loadYear' = year

\* DOMContentLoaded of src/static/js/main.js
LoadFooter ==
  /\ script = "footer" /\ ~loaded
  /\ loaded' = TRUE
  /\ WriteYear
  /\ lastEvent' = Event("load", 0, NoInfo)
  /\ UNCHANGED << pageVars, year, handlerAttached, searchVars, alertVars >>

\* DOMContentLoaded of the "elastic" script: the listener is added only when
\* the form and its five companion elements exist
LoadElastic ==
  /\ script = "elastic" /\ ~loaded
  /\ loaded' = TRUE
  /\ WriteYear
  /\ handlerAttached' = hasSearchDom
  /\ lastEvent' = Event("load", 0, NoInfo)
  /\ UNCHANGED << pageVars, year, searchVars, alertVars >>

\* DOMContentLoaded of the "buscar" script
LoadBuscar ==
  /\ script = "buscar" /\ ~loaded
  /\ loaded' = TRUE
  /\ WriteYear
  /\ handlerAttached' = hasSearchDom
  /\ lastEvent' = Event("load", 0, NoInfo)
  /\ UNCHANGED << pageVars, year, searchVars, alertVars >>

\* The calendar year changes while the page is open or before it loads
NewYear ==
  /\ hasYearSpan /\ year + 1 \in Years
  /\ year' = year + 1
  /\ lastEvent' = Event("newYear", 0, NoInfo)
  /\ UNCHANGED << pageVars, loaded, yearText, loadYear, handlerAttached, searchVars,
                  alertVars >>

----------------------------------------------------------------------------
(* The page before DOMContentLoaded.                                       *)

AlertConfigs ==
  UNION { [1..n -> [autoclose : AutocloseAttrs, delay : DelayAttrs]] : n \in 0..MaxAlerts }

\* The footer and the search form share no state: the model looks at them on
\* separate pages, a page with #current-year and a page with the search form
Init ==
  /\ script \in { "footer", "elastic", "buscar", "landing" }
  /\ loaded = FALSE
  /\ hasYearSpan \in (IF script = "landing" THEN { FALSE } ELSE BOOLEAN)
  /\ yearText = <<>>
  /\ year = 2025
  /\ loadYear = 0
  /\ hasSearchDom \in (IF script \in { "elastic", "buscar" } /\ ~hasYearSpan
                        THEN BOOLEAN ELSE { FALSE })
  /\ handlerAttached = FALSE
  /\ alerta = ocultarAlerta
  /\ sectionVisible = FALSE
  /\ container = <<>>
  /\ totalText = ToStr(0)
  /\ ultimaBusqueda = <<>>
  /\ reqs = <<>>
  /\ requestLog = <<>>
  /\ lastEvent = Event("init", 0, NoInfo)
  /\ bootstrapLoaded \in (IF script = "landing" THEN BOOLEAN ELSE { FALSE })
  /\ alerts \in (IF script = "landing" THEN AlertConfigs ELSE { <<>> })
  /\ timers = {}
  /\ now = 0
  /\ closeCount = [i \in 1..Len(alerts) |-> 0]
  /\ closedAt = [i \in 1..Len(alerts) |-> 0]

Next ==
  \/ LoadFooter
  \/ LoadElastic
  \/ LoadBuscar
  \/ LoadLanding
  \/ NewYear
  \/ \E v \in InputValues : SubmitElastic(v)
  \/ \E i \in 1..MaxRequests : FetchRejectedElastic(i)
  \/ \E i \in 1..MaxRequests, status \in Statuses : ResponseElastic(i, status)
  \/ \E i \in 1..MaxRequests : JsonRejectedElastic(i)
  \/ \E i \in 1..Len(reqs) : \E data \in Bodies(reqs[i].texto) : BodyElastic(i, data)
  \/ \E v \in InputValues : SubmitBuscar(v)
  \/ \E i \in 1..MaxRequests : FetchRejectedBuscar(i)
  \/ \E i \in 1..MaxRequests, status \in Statuses : ResponseBuscar(i, status)
  \/ \E i \in 1..MaxRequests : JsonRejectedBuscar(i)
  \/ \E i \in 1..Len(reqs) : \E data \in Bodies(reqs[i].texto) : BodyBuscar(i, data)
  \/ \E t \in TimePoints : Tick(t)
  \/ \E tm \in timers : TimerFires(tm)

Spec == Init /\ [][Next]_vars

----------------------------------------------------------------------------
(* Vocabulary of the properties.                                           *)

SearchScripts == { "elastic", "buscar" }

\* The latest step handled a submit whose input value trims to ""
EmptySubmit(ev) ==
  /\ ev.op = "submit"
  /\ \A k \in 1..Len(ev.info.v) : ev.info.v[k] \in { " ", "\t", "\n" }

\* Request i still awaits its response or its body
Outstanding(i) == reqs[i].pc \in { "fetch", "json" }
AllSettled == \A i \in 1..Len(reqs) : ~Outstanding(i)

\* The latest step ended the handling of a request
Settled(ev) ==
  /\ ev.op \in { "fetchRejected", "response", "jsonRejected", "body" }
  /\ ~Outstanding(ev.req)

\* text occurs in msg as a run of consecutive chunks
Contains(msg, text) ==
  \E k \in 0..(Len(msg) - Len(text)) : SubSeq(msg, k + 1, k + Len(text)) = text

GenericDanger ==
  [tipo |-> "danger", msg |-> << "Error de comunicación con el servidor." >>]

HasItems(c) == \E k \in 1..Len(c) : c[k].t = "item"
NoResultsShown ==
  container = << [t |-> "mensaje", text |-> "No se encontraron resultados."] >>

\* The latest step parsed a body that reports no failure and carries no hits
ZeroHitsBody(ev) == ev.op = "body" /\ ev.info.t = "hits" /\ ev.info.n = 0

----------------------------------------------------------------------------
C2_Original ==
  (script \in SearchScripts /\ ZeroHitsBody(lastEvent)) =>
    (NoResultsShown /\ sectionVisible)

(* C2, amended: in the /buscar-elastic handler a body that reports no      *)
(* failure and has zero hits, in any of the four shapes, leaves "No se     *)
(* encontraron resultados." visible in the results area with the alert     *)
(* hidden; in the /buscar handler it leaves the warning alert "No se       *)
(* encontraron documentos para esa búsqueda." and renders no message.      *)
C2_ZeroHits ==
  ZeroHitsBody(lastEvent) =>
    /\ lastEvent.info.forma \in { "hits", "hits.hits", "resultados", "none" }
    /\ script = "elastic" =>
         NoResultsShown /\ sectionVisible /\ alerta.tipo = "hidden"
    /\ script = "buscar" =>
         /\ alerta = [tipo |-> "warning",
                      msg |-> << "No se encontraron documentos para esa búsqueda." >>]
         /\ ~NoResultsShown

C2_Witness ==
  /\ script = "elastic"
  /\ ZeroHitsBody(lastEvent)
  /\ lastEvent.info.forma = "hits.hits"
  /\ NoResultsShown /\ sectionVisible

\* The text the alert shows if it displays the error field of the body
ErrorFieldText(error) == IF error.t = "str" THEN << error.v >> ELSE <<>>

FailureBody(ev) == script = "elastic" /\ ev.op = "body" /\ ev.info.t = "failure"

BadStatus(ev) == ev.op = "response" /\ ~(ev.info.v \in 200..299)

(* C4, as stated: a non-2xx response shows a danger alert that contains    *)
(* the status code, and the body is neither parsed nor rendered, in both   *)
(* search handlers.                                                        *)
C4_Original ==
  [][ (script' \in SearchScripts /\ BadStatus(lastEvent')) =>
        /\ alerta'.tipo = "danger"
        /\ Contains(alerta'.msg, ToStr(lastEvent'.info.v))
        /\ reqs'[lastEvent'.req].pc = "failed"
        /\ UNCHANGED << container, sectionVisible, totalText, ultimaBusqueda >> ]_vars

(* C4, amended: a non-2xx response shows a danger alert and the body is    *)
(* neither parsed nor rendered; the alert contains the status code in the  *)
(* /buscar-elastic handler and is the generic communication-error alert,   *)
(* without the status code, in the /buscar handler.                        *)
C4_BadStatusDanger ==
  [][ (script' \in SearchScripts /\ BadStatus(lastEvent')) =>
        /\ alerta'.tipo = "danger"
        /\ script' = "elastic" => Contains(alerta'.msg, ToStr(lastEvent'.info.v))
        /\ script' = "buscar" => alerta' = GenericDanger
        /\ reqs'[lastEvent'.req].pc = "failed"
        /\ UNCHANGED << container, sectionVisible, totalText, ultimaBusqueda >> ]_vars

C4_Witness ==
  /\ script = "elastic"
  /\ BadStatus(lastEvent) /\ lastEvent.info.v = 404
  /\ alerta.tipo = "danger"
  /\ Contains(alerta.msg, << "4", "0", "4" >>)

\* A rejected fetch, a rejected resp.json(), or a TypeError on a null body
Exception(ev) ==
  \/ ev.op \in { "fetchRejected", "jsonRejected" }
  \/ ev.op = "body" /\ ev.info.t = "null"

RenderedWithAlert(tipo) ==
  alerta.tipo = tipo /\ sectionVisible /\ container # <<>>

(* C5, as stated: exceptions show the generic communication-error alert,   *)
(* and every settled submission ends with a hidden alert over rendered     *)
(* results or with a danger alert, never in the loading state.             *)
C5_Original ==
  script \in SearchScripts =>
    /\ Exception(lastEvent) => alerta = GenericDanger
    /\ Settled(lastEvent) => (RenderedWithAlert("hidden") \/ alerta.tipo = "danger")
    /\ AllSettled => alerta.tipo # "info"

(* C5, amended: exceptions show the generic communication-error alert and  *)
(* no settled submission is left in the loading state; the /buscar-elastic *)
(* handler ends with a hidden alert over rendered results or a danger      *)
(* alert, the /buscar handler with a success alert over rendered results,  *)
(* a warning alert (no documents) or a danger alert.                       *)
C5_SettledLeavesLoading ==
  script \in SearchScripts =>
    /\ Exception(lastEvent) => alerta = GenericDanger
    /\ (script = "elastic" /\ Settled(lastEvent)) =>
         (RenderedWithAlert("hidden") \/ alerta.tipo = "danger")
    /\ (script = "buscar" /\ Settled(lastEvent)) =>
         (RenderedWithAlert("success") \/ alerta.tipo \in { "warning", "danger" })
    /\ AllSettled => alerta.tipo # "info"

C5_Witness ==
  /\ script = "elastic"
  /\ lastEvent.op = "jsonRejected"
  /\ Len(reqs) = 2 /\ AllSettled
  /\ alerta = GenericDanger

\* texto is value without its leading and trailing whitespace
IsTrimOf(texto, value) ==
  /\ texto # <<>>
  /\ texto[1] \notin { " ", "\t", "\n" }
  /\ texto[Len(texto)] \notin { " ", "\t", "\n" }
  /\ \E k \in 0..(Len(value) - Len(texto)) :
       /\ SubSeq(value, k + 1, k + Len(texto)) = texto
       /\ \A j \in (1..k) \cup ((k + Len(texto) + 1)..Len(value)) :
            value[j] \in { " ", "\t", "\n" }

(* C6: in the /buscar-elastic handler every non-empty submission issues    *)
(* exactly one POST to /buscar-elastic with body {texto: the trimmed       *)
(* query, size: 20}; settled or failed requests add none.                  *)
C6_OneRequestPerSubmission ==
  script = "elastic" =>
    /\ Len(requestLog) = Len(reqs)
    /\ \A i \in 1..Len(requestLog) :
         /\ requestLog[i].url = "/buscar-elastic"
         /\ requestLog[i].method = "POST"
         /\ requestLog[i].body = [texto |-> reqs[i].texto, size |-> 20]
    /\ (lastEvent.op = "submit" /\ ~EmptySubmit(lastEvent)) =>
         /\ Len(requestLog) >= 1
         /\ IsTrimOf(requestLog[Len(requestLog)].body.texto, lastEvent.info.v)

C6_Witness ==
  /\ script = "elastic"
  /\ Len(requestLog) = 2
  /\ \A i \in 1..2 : reqs[i].pc = "failed"
  /\ requestLog[2].body = [texto |-> << "a" >>, size |-> 20]

(* C7, as stated: after load the text of #current-year is the current      *)
(* calendar year, in every state.                                          *)
C7_Original ==
  (loaded /\ hasYearSpan) => yearText = ToStr(year)

(* C7, amended: after load the text of #current-year is the calendar year  *)
(* of the moment DOMContentLoaded ran; it is the current year as long as   *)
(* no new year has begun since.                                            *)
C7_YearOfLoad ==
  (loaded /\ hasYearSpan) =>
    /\ yearText = ToStr(loadYear)
    /\ loadYear <= year
    /\ lastEvent.op = "load" => loadYear = year

C7_Witness ==
  /\ loaded /\ hasYearSpan
  /\ year = 2026
  /\ yearText = << "2", "0", "2", "5" >>

\* The delay the attributes of an alert announce, in ms; 0 where they
\* announce none (an empty or non-numeric data-autoclose-delay)
AnnouncedDelay(alert) ==
  IF alert.delay = Absent THEN 5000
  ELSE IF alert.delay.v = << "8", "0", "0", "0" >> THEN 8000
  ELSE 0

Pending(i) == \E tm \in timers : tm.alert = i

(* C8: with Bootstrap loaded, an alert with data-autoclose="false" is      *)
(* never closed, every other alert is closed at most once and exactly once *)
(* when its timer has run, and no close happens before the alert's delay.  *)
C8_AutoHide ==
  (script = "landing" /\ loaded /\ bootstrapLoaded) =>
    \A i \in 1..Len(alerts) :
      IF alerts[i].autoclose = [t |-> "str", v |-> << "f", "a", "l", "s", "e" >>]
      THEN closeCount[i] = 0 /\ ~Pending(i)
      ELSE /\ closeCount[i] \in { 0, 1 }
           /\ (closeCount[i] = 1) <=> ~Pending(i)
           /\ closeCount[i] = 1 => closedAt[i] >= AnnouncedDelay(alerts[i])
           /\ \A tm \in timers : tm.alert = i => tm.due >= AnnouncedDelay(alerts[i])

C8_Witness ==
  /\ script = "landing" /\ loaded /\ bootstrapLoaded
  /\ Len(alerts) = 2
  /\ alerts[1].autoclose = [t |-> "str", v |-> << "f", "a", "l", "s", "e" >>]
  /\ alerts[2].delay = [t |-> "str", v |-> << "8", "0", "0", "0" >>]
  /\ closeCount = << 0, 1 >>
  /\ closedAt[2] >= 8000
  /\ timers = {}

(* C9: once all requests have completed successfully, the rendered results *)
(* and ultimaBusqueda are those of the most recently submitted query,      *)
(* whatever the order of arrival.                                          *)
C9_LastSubmittedWins ==
  (/\ script = "elastic"
   /\ Len(reqs) >= 1
   /\ \A i \in 1..Len(reqs) : reqs[i].pc = "completed") =>
    /\ \A k \in 1..Len(container) :
         container[k].t = "item" => container[k].q = reqs[Len(reqs)].texto
    /\ \A k \in 1..Len(ultimaBusqueda) :
         ultimaBusqueda[k].q = reqs[Len(reqs)].texto

(* C10: a danger or warning alert is never displayed together with a       *)
(* visible, non-empty results list: whenever the results section is        *)
(* visible with rendered hits the alert is hidden.  (The claim adds that   *)
(* an error alert implies an empty results section; that part is stronger  *)
(* and fails in the same runs.)                                            *)
C10_AlertExcludesResults ==
  (script = "elastic" /\ handlerAttached) =>
    /\ ~(alerta.tipo \in { "danger", "warning" }
           /\ sectionVisible /\ HasItems(container))
    /\ (sectionVisible /\ HasItems(container)) => alerta.tipo = "hidden"

====
